---- MODULE Spec2Model ----
(***************************************************************************)
(* Model of the two scripts of Assignments/Assignment_4:                   *)
(*   groupanalysis (2).py  voxel-wise one-sample t-test over a manifest of *)
(*                         volumes (load_files, perform_group_analysis,    *)
(*                         save_results, main);                            *)
(*   prepare.py            registration driver and manifest writer         *)
(*                         (register_to_standard, create_file_list, main). *)
(*                                                                         *)
(* Arithmetic is exact: a float is modelled as NaN, +/-Inf or a finite     *)
(* value s*sqrt(n/d) (sign s, rational n/d), which is closed under the     *)
(* operations the t-test uses on integer voxel values.  The z-statistic is *)
(* kept by class (NaN, Inf, sign of a finite value).                       *)
(***************************************************************************)
EXTENDS Integers, Sequences, FiniteSets, TLC

\* ------------------------------------------------------------------------
\* Bounds of the model
\* ------------------------------------------------------------------------
MaxLines == 3            \* lines of the manifest read by load_files
PopulatedSubjects == {1, 31, 32}   \* the other subjects have an empty input directory
MaxPaths == 3            \* length of the list handed to create_file_list on its own
Values == {-1, 0, 1, 2}  \* voxel values of a volume
Shapes == {<<1, 1, 1>>, <<2, 1, 1>>}   \* img.shape of a loadable volume
ArgCounts == 1..4        \* len(sys.argv) of the group-analysis command

VARIABLES
    \* ---- group analysis: groupanalysis (2).py
    argc,        \* len(sys.argv)
    manifest,    \* the file list: whether open() succeeds, and its lines
    gaPc,        \* position of main: "main", "load", "analyse", "save", "exited"
    exitStatus,  \* exit status of the process, -1 while it runs
    raised,      \* what ended the process: "none", "SystemExit", or the uncaught exception
    images,      \* the list load_files returned (shapes of the loaded images)
    dataStack,   \* data_stack: subject -> voxel -> value
    stds,        \* stds, per voxel
    tStat,       \* t_stat_data, per voxel
    zStat,       \* z_stat_data, per voxel
    dfOut,       \* df, third element of the result
    written,     \* output files written by save_results
    \* ---- preparation: prepare.py
    pPc,             \* position of main / register_to_standard
    second,          \* TRUE in a second run over the same output directory
    contrastsArg,    \* args.contrasts (<<>> when the flag is absent)
    sIdx,            \* index of the current subject in subject_numbers
    cur,             \* glob results for the current subject
    fIdx,            \* index of the current contrast file in contrast_files
    outputs,         \* output files that exist in output_dir
    registeredFiles, \* registered_files
    flirtLog,        \* the external commands run so far in this run
    fileLists,       \* the file lists written by this run
    cIdx,            \* index of the current contrast number in args.contrasts
    \* ---- create_file_list called on its own
    flFiles,         \* registered_files argument
    flContrast,      \* contrast_num argument: <<>> for None, <<N>> for N
    flWritten,       \* the lines written to output_file
    flPc             \* "call" before the call, "returned" after it

gaVars == <<argc, manifest, gaPc, exitStatus, raised, images, dataStack,
            stds, tStat, zStat, dfOut, written>>

prepVars == <<pPc, second, contrastsArg, sIdx, cur, fIdx, outputs,
              registeredFiles, flirtLog, fileLists, cIdx>>

flVars == <<flFiles, flContrast, flWritten, flPc>>

vars == <<gaVars, prepVars, flVars>>

\* ------------------------------------------------------------------------
\* Floats, exact: NaN, +/-Inf, or s * sqrt(n / d)
\* ------------------------------------------------------------------------
Sign(x) == IF x > 0 THEN 1 ELSE IF x < 0 THEN -1 ELSE 0

Max(a, b) == IF a >= b THEN a ELSE b

RECURSIVE GCD(_, _)
GCD(a, b) == IF b = 0 THEN a ELSE GCD(b, a % b)

XNaN == [k |-> "nan", s |-> 0, n |-> 0, d |-> 1]

XInf(s) == [k |-> "inf", s |-> s, n |-> 0, d |-> 1]

XZero == [k |-> "fin", s |-> 0, n |-> 0, d |-> 1]

\* s * sqrt(n / d), n >= 0, d > 0, in lowest terms
XFin(s, n, d) ==
    IF s = 0 \/ n = 0 THEN XZero
    ELSE LET g == GCD(n, d) IN [k |-> "fin", s |-> s, n |-> n \div g, d |-> d \div g]

\* a / b of two floats under np.errstate(divide='ignore', invalid='ignore')
XDiv(a, b) ==
    IF a.k = "nan" \/ b.k = "nan" THEN XNaN
    ELSE IF a.k = "inf" THEN
        IF b.k = "inf" THEN XNaN
        ELSE XInf(IF b.s = 0 THEN a.s ELSE a.s * b.s)
    ELSE IF b.k = "inf" THEN XZero
    ELSE IF b.s = 0 THEN (IF a.s = 0 THEN XNaN ELSE XInf(a.s))
    ELSE XFin(a.s * b.s, a.n * b.d, a.d * b.n)

\* Mutant of NanToNum: NaN and Inf are passed through
NanToNumKept(x) == x

\* np.nan_to_num(x, nan=0, posinf=0, neginf=0)
NanToNum(x) == IF x.k = "fin" THEN x ELSE XZero

\* np.sign of a float that is not NaN
XSign(x) == x.s

RECURSIVE SumSeq(_)
SumSeq(xs) == IF xs = <<>> THEN 0 ELSE Head(xs) + SumSeq(Tail(xs))

RECURSIVE SumSq(_)
SumSq(xs) == IF xs = <<>> THEN 0 ELSE Head(xs) * Head(xs) + SumSq(Tail(xs))

\* np.mean(reshaped_data, axis=1) at one voxel: sum / K
Mean(xs) ==
    LET S == SumSeq(xs)
        K == Len(xs)
    IN XFin(Sign(S), S * S, K * K)

\* np.std(reshaped_data, axis=1, ddof=1) at one voxel:
\* sqrt(sum((x - mean)^2) / max(K - ddof, 0)); the sum of squares is
\* (K*Q - S^2) / K, and a zero sum over a zero count is NaN.
StdDdof1(xs) ==
    LET S == SumSeq(xs)
        Q == SumSq(xs)
        K == Len(xs)
        ssn == K * Q - S * S
        rcount == Max(K - 1, 0)
    IN IF rcount = 0 THEN (IF ssn = 0 THEN XNaN ELSE XInf(1))
       ELSE XFin(Sign(ssn), ssn, K * rcount)

\* np.sqrt(num_subjects)
SqrtInt(K) == XFin(1, K, 1)

\* ------------------------------------------------------------------------
\* scipy.stats: the class of the two-tailed p-value and of its z-score
\* ------------------------------------------------------------------------
\* Square of the 0.75 quantile of Student's t with df degrees of freedom, as
\* <<numerator, denominator>>: 2 * t.sf(q, df) = 0.5 exactly there.  The
\* entries for df = 1 and df = 2 are exact, the others are rounded to six
\* decimals (the last one is the normal limit); t^2 of integer voxel values
\* is a ratio of small integers and lies on no rounded entry.
T75Sq(df) ==
    CASE df = 1 -> <<1, 1>>
      [] df = 2 -> <<2, 3>>
      [] df = 3 -> <<585060, 1000000>>
      [] df = 4 -> <<548632, 1000000>>
      [] df = 5 -> <<528074, 1000000>>
      [] df = 6 -> <<514890, 1000000>>
      [] OTHER  -> <<454937, 1000000>>

\* stats.t.sf(np.abs(t), df) * 2 for a finite t, by class:
\* "nan" (df <= 0), "one" (t = 0), "gt_half", "half", "lt_half"
TwoTailedP(t, df) ==
    IF df <= 0 THEN "nan"
    ELSE IF t.s = 0 THEN "one"
    ELSE LET q == T75Sq(df)
             lhs == t.n * q[2]
             rhs == q[1] * t.d
         IN IF lhs < rhs THEN "gt_half"
            ELSE IF lhs = rhs THEN "half"
            ELSE "lt_half"

\* stats.norm.isf(p): isf(1) = -inf, negative above 0.5, 0 at 0.5, positive below
NormIsf(p) ==
    CASE p = "nan"     -> [k |-> "nan", s |-> 0]
      [] p = "one"     -> [k |-> "inf", s |-> -1]
      [] p = "gt_half" -> [k |-> "fin", s |-> -1]
      [] p = "half"    -> [k |-> "fin", s |-> 0]
      [] p = "lt_half" -> [k |-> "fin", s |-> 1]

\* np.sign(t_values) * z_values: 0 * inf and anything with NaN are NaN
SignTimes(s, z) ==
    IF z.k = "nan" THEN [k |-> "nan", s |-> 0]
    ELSE IF z.k = "inf" THEN
        (IF s = 0 THEN [k |-> "nan", s |-> 0] ELSE [k |-> "inf", s |-> s * z.s])
    ELSE [k |-> "fin", s |-> s * z.s]

\* np.nan_to_num on a z value
ZNanToNum(z) == IF z.k = "fin" THEN z ELSE [k |-> "fin", s |-> 0]

\* ------------------------------------------------------------------------
\* perform_group_analysis, per voxel
\* ------------------------------------------------------------------------
\* Mutant of DegreesOfFreedom: df = num_subjects
DegreesOfFreedomK(numSubjects) == numSubjects

\* df = num_subjects - 1
DegreesOfFreedom(numSubjects) == numSubjects - 1

\* se = stds / np.sqrt(num_subjects)
StdErr(xs) == XDiv(StdDdof1(xs), SqrtInt(Len(xs)))

\* t_values = nan_to_num(means / se)
TValue(xs) == NanToNum(XDiv(Mean(xs), StdErr(xs)))

\* z_values_signed = nan_to_num(sign(t) * norm.isf(t.sf(|t|, df) * 2))
ZValue(t, df) == ZNanToNum(SignTimes(XSign(t), NormIsf(TwoTailedP(t, df))))

\* number of voxels of a shape: np.prod(shape)
NumVoxels(shape) == shape[1] * shape[2] * shape[3]

\* reshaped_data[v]: the values of voxel v across the subjects
AcrossSubjects(data, v) == [i \in 1..Len(data) |-> data[i][v]]

\* ------------------------------------------------------------------------
\* load_files
\* ------------------------------------------------------------------------
\* A line of the file list: blank, a path nib.load rejects, or a path of a
\* loadable volume with its shape.
Blank == [kind |-> "blank", shape |-> <<>>]

Unloadable == [kind |-> "bad", shape |-> <<>>]

Volume(shape) == [kind |-> "vol", shape |-> shape]

Lines == {Blank, Unloadable} \cup {Volume(sh) : sh \in Shapes}

\* a file list open() cannot read (missing or unreadable)
MissingManifest == [readable |-> FALSE, lines |-> <<>>]

RECURSIVE SeqsUpTo(_, _)
SeqsUpTo(S, n) ==
    IF n = 0 THEN {<<>>}
    ELSE LET shorter == SeqsUpTo(S, n - 1)
         IN shorter \cup {Append(q, x) : q \in {r \in shorter : Len(r) = n - 1}, x \in S}

\* file_paths = [line.strip() for line in f if line.strip()]
RECURSIVE NonBlank(_)
NonBlank(ls) ==
    IF ls = <<>> THEN <<>>
    ELSE IF Head(ls).kind = "blank" THEN NonBlank(Tail(ls))
    ELSE <<Head(ls)>> \o NonBlank(Tail(ls))

\* Mutant of LoadFilesResult: the shape test is len(set(shapes)) > 2
LoadFilesResultLooseShapes(m) ==
    IF ~m.readable THEN [raised |-> "FileNotFoundError", status |-> 1, images |-> <<>>]
    ELSE LET paths == NonBlank(m.lines) IN
         IF paths = <<>> THEN [raised |-> "ValueError", status |-> 1, images |-> <<>>]
         ELSE IF \E i \in 1..Len(paths) : paths[i].kind = "bad"
              THEN [raised |-> "SystemExit", status |-> 1, images |-> <<>>]
         ELSE IF Cardinality({paths[i].shape : i \in 1..Len(paths)}) > 2
              THEN [raised |-> "SystemExit", status |-> 1, images |-> <<>>]
         ELSE [raised |-> "none", status |-> -1,
               images |-> [i \in 1..Len(paths) |-> paths[i].shape]]

\* Mutant of LoadFilesResult: a load failure ends the process with sys.exit(2)
LoadFilesResultExit2(m) ==
    IF ~m.readable THEN [raised |-> "FileNotFoundError", status |-> 1, images |-> <<>>]
    ELSE LET paths == NonBlank(m.lines) IN
         IF paths = <<>> THEN [raised |-> "ValueError", status |-> 1, images |-> <<>>]
         ELSE IF \E i \in 1..Len(paths) : paths[i].kind = "bad"
              THEN [raised |-> "SystemExit", status |-> 2, images |-> <<>>]
         ELSE IF Cardinality({paths[i].shape : i \in 1..Len(paths)}) > 1
              THEN [raised |-> "SystemExit", status |-> 1, images |-> <<>>]
         ELSE [raised |-> "none", status |-> -1,
               images |-> [i \in 1..Len(paths) |-> paths[i].shape]]

\* the result of load_files: how it ends and the images it returns
LoadFilesResult(m) ==
    IF ~m.readable THEN [raised |-> "FileNotFoundError", status |-> 1, images |-> <<>>]
    ELSE LET paths == NonBlank(m.lines) IN
         IF paths = <<>> THEN [raised |-> "ValueError", status |-> 1, images |-> <<>>]
         ELSE IF \E i \in 1..Len(paths) : paths[i].kind = "bad"
              THEN [raised |-> "SystemExit", status |-> 1, images |-> <<>>]
         ELSE IF Cardinality({paths[i].shape : i \in 1..Len(paths)}) > 1
              THEN [raised |-> "SystemExit", status |-> 1, images |-> <<>>]
         ELSE [raised |-> "none", status |-> -1,
               images |-> [i \in 1..Len(paths) |-> paths[i].shape]]

\* ------------------------------------------------------------------------
\* Paths and names as character sequences
\* ------------------------------------------------------------------------
DigitChar(d) ==
    CASE d = 0 -> "0" [] d = 1 -> "1" [] d = 2 -> "2" [] d = 3 -> "3" [] d = 4 -> "4"
      [] d = 5 -> "5" [] d = 6 -> "6" [] d = 7 -> "7" [] d = 8 -> "8" [] d = 9 -> "9"

DigitChars == {"0", "1", "2", "3", "4", "5", "6", "7", "8", "9"}

\* str(n) for n >= 0, as f"{n}" formats it
RECURSIVE IntToStr(_)
IntToStr(n) ==
    IF n < 10 THEN <<DigitChar(n)>>
    ELSE IntToStr(n \div 10) \o <<DigitChar(n % 10)>>

\* f"{subject_num:02d}"
Pad2(n) == IF n < 10 THEN <<"0">> \o IntToStr(n) ELSE IntToStr(n)

\* subject_id = f"sub-{subject_num:02d}"
SubjectId(n) == <<"s", "u", "b", "-">> \o Pad2(n)

\* subject_numbers = [n for n in range(1, 33) if n not in [15, 26]]
SubjectNumbers == SelectSeq([i \in 1..32 |-> i], LAMBDA n : n \notin {15, 26})

NiiGz == <<".", "n", "i", "i", ".", "g", "z">>

CopeStr == <<".", "c", "o", "p", "e">>

ZstatStr == <<".", "z", "s", "t", "a", "t">>

\* args.output_dir
OutputDir == <<"o">>

\* output_file = os.path.join(output_dir, f"{subject_id}_{contrast_name}")
OutputPath(sub, name) == OutputDir \o <<"/">> \o SubjectId(sub) \o <<"_">> \o name

\* ------------------------------------------------------------------------
\* create_file_list
\* ------------------------------------------------------------------------
\* needle in path (Python's substring test), scanning the start offsets
RECURSIVE ContainsFrom(_, _, _)
ContainsFrom(path, needle, i) ==
    IF i + Len(needle) - 1 > Len(path) THEN FALSE
    ELSE IF SubSeq(path, i, i + Len(needle) - 1) = needle THEN TRUE
    ELSE ContainsFrom(path, needle, i + 1)

Contains(path, needle) == ContainsFrom(path, needle, 1)

\* Mutant of MatchesContrast: only the .cope name is tested
MatchesContrastCopeOnly(f, contrastNum) ==
    Contains(f, CopeStr \o IntToStr(contrastNum))

\* f".cope{contrast_num}" in f or f".zstat{contrast_num}" in f
MatchesContrast(f, contrastNum) ==
    \/ Contains(f, CopeStr \o IntToStr(contrastNum))
    \/ Contains(f, ZstatStr \o IntToStr(contrastNum))

\* the lines create_file_list writes: contrast is <<>> (None) or <<N>>
RECURSIVE FilterContrast(_, _)
FilterContrast(files, contrastNum) ==
    IF files = <<>> THEN <<>>
    ELSE IF MatchesContrast(Head(files), contrastNum)
         THEN <<Head(files)>> \o FilterContrast(Tail(files), contrastNum)
         ELSE FilterContrast(Tail(files), contrastNum)

CreateFileList(files, contrast) ==
    IF contrast # <<>> THEN FilterContrast(files, contrast[1]) ELSE files

\* ------------------------------------------------------------------------
\* Idle values of the components a specification does not run
\* ------------------------------------------------------------------------
GAIdle ==
    /\ argc = 3
    /\ manifest = MissingManifest
    /\ gaPc = "idle"
    /\ exitStatus = -1
    /\ raised = "none"
    /\ images = <<>>
    /\ dataStack = <<>>
    /\ stds = <<>>
    /\ tStat = <<>>
    /\ zStat = <<>>
    /\ dfOut = -1
    /\ written = {}

EmptyListing == [contrasts |-> <<>>, mat |-> FALSE]

PrepIdle ==
    /\ pPc = "idle"
    /\ second = FALSE
    /\ contrastsArg = <<>>
    /\ sIdx = 0
    /\ cur = EmptyListing
    /\ fIdx = 0
    /\ outputs = {}
    /\ registeredFiles = <<>>
    /\ flirtLog = <<>>
    /\ fileLists = <<>>
    /\ cIdx = 0

FLIdle ==
    /\ flFiles = <<>>
    /\ flContrast = <<>>
    /\ flWritten = <<>>
    /\ flPc = "idle"

\* ------------------------------------------------------------------------
\* Group analysis: main
\* ------------------------------------------------------------------------
GAInit ==
    /\ argc \in ArgCounts
    /\ manifest \in {MissingManifest} \cup
                   {[readable |-> TRUE, lines |-> ls] : ls \in SeqsUpTo(Lines, MaxLines)}
    /\ gaPc = "main"
    /\ exitStatus = -1
    /\ raised = "none"
    /\ images = <<>>
    /\ dataStack = <<>>
    /\ stds = <<>>
    /\ tStat = <<>>
    /\ zStat = <<>>
    /\ dfOut = -1
    /\ written = {}
    /\ PrepIdle
    /\ FLIdle

\* main: if len(sys.argv) != 3: usage, sys.exit(1)
MainUsage ==
    /\ gaPc = "main"
    /\ argc # 3
    /\ gaPc' = "exited"
    /\ exitStatus' = 1
    /\ raised' = "SystemExit"
    /\ UNCHANGED <<argc, manifest, images, dataStack, stds, tStat, zStat, dfOut, written>>
    /\ UNCHANGED <<prepVars, flVars>>

\* main: images = load_files(file_list_path); an uncaught exception or
\* sys.exit(1) ends the process with status 1
LoadFiles ==
    /\ gaPc = "main"
    /\ argc = 3
    /\ LET r == LoadFilesResult(manifest) IN
        /\ images' = r.images
        /\ raised' = r.raised
        /\ exitStatus' = r.status
        /\ gaPc' = IF r.raised = "none" THEN "analyse" ELSE "exited"
    /\ UNCHANGED <<argc, manifest, dataStack, stds, tStat, zStat, dfOut, written>>
    /\ UNCHANGED <<prepVars, flVars>>

\* main: t_stat_data, z_stat_data, df = perform_group_analysis(images);
\* get_fdata() reads the voxel values of each image
PerformGroupAnalysis ==
    /\ gaPc = "analyse"
    /\ LET K == Len(images)
           nv == NumVoxels(images[1])
       IN \E data \in [1..K -> [1..nv -> Values]] :
            LET df == DegreesOfFreedom(K) IN
            /\ dataStack' = data
            /\ stds' = [v \in 1..nv |-> StdDdof1(AcrossSubjects(data, v))]
            /\ tStat' = [v \in 1..nv |-> TValue(AcrossSubjects(data, v))]
            /\ zStat' = [v \in 1..nv |-> ZValue(TValue(AcrossSubjects(data, v)), df)]
            /\ dfOut' = df
    /\ gaPc' = "save"
    /\ UNCHANGED <<argc, manifest, exitStatus, raised, images, written>>
    /\ UNCHANGED <<prepVars, flVars>>

\* main: save_results(t_stat_data, z_stat_data, output_prefix, images[0]),
\* then main returns and the process exits with status 0
SaveResults ==
    /\ gaPc = "save"
    /\ written' = {"tstat.nii.gz", "zstat.nii.gz"}
    /\ gaPc' = "exited"
    /\ exitStatus' = 0
    /\ UNCHANGED <<argc, manifest, raised, images, dataStack, stds, tStat, zStat, dfOut>>
    /\ UNCHANGED <<prepVars, flVars>>

GANext == MainUsage \/ LoadFiles \/ PerformGroupAnalysis \/ SaveResults

SpecGA == GAInit /\ [][GANext]_vars

\* ------------------------------------------------------------------------
\* Preparation: register_to_standard and main of prepare.py
\* ------------------------------------------------------------------------
\* names of contrast files a subject directory may hold
Cope1Name == <<"r">> \o CopeStr \o IntToStr(1) \o NiiGz

Cope10Name == <<"r">> \o CopeStr \o IntToStr(10) \o NiiGz

ContrastNames == {Cope1Name, Cope10Name}

\* glob.glob(contrast_pattern): the matching files, in directory order
GlobResults ==
    {<<>>} \cup {<<a>> : a \in ContrastNames}
           \cup {q \in {<<a, b>> : a \in ContrastNames, b \in ContrastNames} : q[1] # q[2]}

\* what the two globs find for a subject
Listings(sub) ==
    IF sub \notin PopulatedSubjects THEN {EmptyListing}
    ELSE {[contrasts |-> c, mat |-> m] : c \in GlobResults, m \in BOOLEAN}

\* args.contrasts: absent, or a list of contrast numbers
ContrastArgs == {<<>>, <<1, 10>>}

CurSubject == SubjectNumbers[sIdx]

CurOutput == OutputPath(CurSubject, cur.contrasts[fIdx])

\* the subject has contrast files and a transformation matrix, and the loop
\* over contrast_files stands at file fIdx
AtFile ==
    /\ pPc = "subject"
    /\ cur.contrasts # <<>>
    /\ cur.mat
    /\ fIdx \in DOMAIN cur.contrasts

PrepInit ==
    /\ pPc = "main"
    /\ second = FALSE
    /\ contrastsArg \in ContrastArgs
    /\ sIdx = 0
    /\ cur = EmptyListing
    /\ fIdx = 0
    /\ outputs = {}
    /\ registeredFiles = <<>>
    /\ flirtLog = <<>>
    /\ fileLists = <<>>
    /\ cIdx = 0
    /\ GAIdle
    /\ FLIdle

\* main calls register_to_standard: os.makedirs, registered_files = []
EnterRegister ==
    /\ pPc = "main"
    /\ pPc' = "loop"
    /\ sIdx' = 0
    /\ registeredFiles' = <<>>
    /\ UNCHANGED <<second, contrastsArg, cur, fIdx, outputs, flirtLog, fileLists, cIdx>>
    /\ UNCHANGED <<gaVars, flVars>>

\* for subject_num in subject_numbers: the next subject and its two globs
NextSubject ==
    /\ pPc = "loop"
    /\ sIdx < Len(SubjectNumbers)
    /\ sIdx' = sIdx + 1
    /\ cur' \in Listings(SubjectNumbers[sIdx + 1])
    /\ fIdx' = 1
    /\ pPc' = "subject"
    /\ UNCHANGED <<second, contrastsArg, outputs, registeredFiles, flirtLog, fileLists, cIdx>>
    /\ UNCHANGED <<gaVars, flVars>>

\* if not contrast_files: continue
SkipNoContrast ==
    /\ pPc = "subject"
    /\ cur.contrasts = <<>>
    /\ pPc' = "loop"
    /\ UNCHANGED <<second, contrastsArg, sIdx, cur, fIdx, outputs, registeredFiles,
                   flirtLog, fileLists, cIdx>>
    /\ UNCHANGED <<gaVars, flVars>>

\* Mutant of SkipNoTransform: transform_files[0] is read without the test and
\* the IndexError ends the run
SkipNoTransformAborts ==
    /\ pPc = "subject"
    /\ cur.contrasts # <<>>
    /\ ~cur.mat
    /\ pPc' = "aborted"
    /\ UNCHANGED <<second, contrastsArg, sIdx, cur, fIdx, outputs, registeredFiles,
                   flirtLog, fileLists, cIdx>>
    /\ UNCHANGED <<gaVars, flVars>>

\* if not transform_files: continue
SkipNoTransform ==
    /\ pPc = "subject"
    /\ cur.contrasts # <<>>
    /\ ~cur.mat
    /\ pPc' = "loop"
    /\ UNCHANGED <<second, contrastsArg, sIdx, cur, fIdx, outputs, registeredFiles,
                   flirtLog, fileLists, cIdx>>
    /\ UNCHANGED <<gaVars, flVars>>

\* the inner loop moves to the next contrast file, or the outer loop resumes
AdvanceFile ==
    IF fIdx < Len(cur.contrasts)
    THEN fIdx' = fIdx + 1 /\ pPc' = "subject"
    ELSE fIdx' = fIdx /\ pPc' = "loop"

\* if os.path.exists(output_file): registered_files.append(output_file); continue
ReuseExisting ==
    /\ AtFile
    /\ CurOutput \in outputs
    /\ registeredFiles' = Append(registeredFiles, CurOutput)
    /\ AdvanceFile
    /\ UNCHANGED <<second, contrastsArg, sIdx, cur, outputs, flirtLog, fileLists, cIdx>>
    /\ UNCHANGED <<gaVars, flVars>>

\* Mutant of FlirtSucceeds: the command is run whether or not output_file exists
FlirtSucceedsAnyway ==
    /\ AtFile
    /\ flirtLog' = Append(flirtLog, [out |-> CurOutput, sub |-> CurSubject, rc |-> 0])
    /\ outputs' = outputs \cup {CurOutput}
    /\ registeredFiles' = Append(registeredFiles, CurOutput)
    /\ AdvanceFile
    /\ UNCHANGED <<second, contrastsArg, sIdx, cur, fileLists, cIdx>>
    /\ UNCHANGED <<gaVars, flVars>>

\* subprocess.run(cmd, check=True) returns: flirt wrote output_file
FlirtSucceeds ==
    /\ AtFile
    /\ CurOutput \notin outputs
    /\ flirtLog' = Append(flirtLog, [out |-> CurOutput, sub |-> CurSubject, rc |-> 0])
    /\ outputs' = outputs \cup {CurOutput}
    /\ registeredFiles' = Append(registeredFiles, CurOutput)
    /\ AdvanceFile
    /\ UNCHANGED <<second, contrastsArg, sIdx, cur, fileLists, cIdx>>
    /\ UNCHANGED <<gaVars, flVars>>

\* Mutant of FlirtFails: output_file is appended although the command failed
FlirtFailsRegistered ==
    /\ AtFile
    /\ CurOutput \notin outputs
    /\ flirtLog' = Append(flirtLog, [out |-> CurOutput, sub |-> CurSubject, rc |-> 1])
    /\ registeredFiles' = Append(registeredFiles, CurOutput)
    /\ AdvanceFile
    /\ UNCHANGED <<second, contrastsArg, sIdx, cur, outputs, fileLists, cIdx>>
    /\ UNCHANGED <<gaVars, flVars>>

\* subprocess.run raises CalledProcessError (non-zero exit status): the
\* error is printed and the loop goes on; no output file is left
FlirtFails ==
    /\ AtFile
    /\ CurOutput \notin outputs
    /\ flirtLog' = Append(flirtLog, [out |-> CurOutput, sub |-> CurSubject, rc |-> 1])
    /\ AdvanceFile
    /\ UNCHANGED <<second, contrastsArg, sIdx, cur, outputs, registeredFiles, fileLists, cIdx>>
    /\ UNCHANGED <<gaVars, flVars>>

\* return registered_files
ReturnRegistered ==
    /\ pPc = "loop"
    /\ sIdx = Len(SubjectNumbers)
    /\ pPc' = "lists"
    /\ UNCHANGED <<second, contrastsArg, sIdx, cur, fIdx, outputs, registeredFiles,
                   flirtLog, fileLists, cIdx>>
    /\ UNCHANGED <<gaVars, flVars>>

\* main: create_file_list(registered_files, all_list_path)
CreateAllList ==
    /\ pPc = "lists"
    /\ fileLists' = Append(fileLists, [contrast |-> <<>>,
                                       paths |-> CreateFileList(registeredFiles, <<>>)])
    /\ IF contrastsArg # <<>>
       THEN pPc' = "contrasts" /\ cIdx' = 1
       ELSE pPc' = "done" /\ cIdx' = cIdx
    /\ UNCHANGED <<second, contrastsArg, sIdx, cur, fIdx, outputs, registeredFiles, flirtLog>>
    /\ UNCHANGED <<gaVars, flVars>>

\* main: for contrast_num in args.contrasts:
\*           create_file_list(registered_files, contrast_list_path, contrast_num)
CreateContrastList ==
    /\ pPc = "contrasts"
    /\ fileLists' = Append(fileLists,
            [contrast |-> <<contrastsArg[cIdx]>>,
             paths |-> CreateFileList(registeredFiles, <<contrastsArg[cIdx]>>)])
    /\ IF cIdx < Len(contrastsArg)
       THEN cIdx' = cIdx + 1 /\ pPc' = "contrasts"
       ELSE cIdx' = cIdx /\ pPc' = "done"
    /\ UNCHANGED <<second, contrastsArg, sIdx, cur, fIdx, outputs, registeredFiles, flirtLog>>
    /\ UNCHANGED <<gaVars, flVars>>

\* the script is run a second time with the same arguments: the output
\* directory keeps the files of the first run
Rerun ==
    /\ pPc = "done"
    /\ ~second
    /\ second' = TRUE
    /\ pPc' = "main"
    /\ sIdx' = 0
    /\ cur' = EmptyListing
    /\ fIdx' = 0
    /\ registeredFiles' = <<>>
    /\ flirtLog' = <<>>
    /\ fileLists' = <<>>
    /\ cIdx' = 0
    /\ UNCHANGED <<contrastsArg, outputs>>
    /\ UNCHANGED <<gaVars, flVars>>

PrepNext ==
    \/ EnterRegister
    \/ NextSubject
    \/ SkipNoContrast
    \/ SkipNoTransform
    \/ ReuseExisting
    \/ FlirtSucceeds
    \/ FlirtFails
    \/ ReturnRegistered
    \/ CreateAllList
    \/ CreateContrastList
    \/ Rerun

SpecPrep == PrepInit /\ [][PrepNext]_vars

\* the script runs to its end: a step that can be taken is eventually taken
SpecPrepFair == SpecPrep /\ WF_vars(PrepNext)

\* ------------------------------------------------------------------------
\* create_file_list on any list of paths
\* ------------------------------------------------------------------------
PathOf(kind, num, ext) == <<"o", "/", "s">> \o kind \o IntToStr(num) \o ext

\* paths the list may hold: .cope and .zstat names of contrasts 1, 2, 10 and
\* 12, a name without the dot, and a name that ends with the number
PathUniverse ==
    {PathOf(CopeStr, 1, NiiGz), PathOf(CopeStr, 10, NiiGz), PathOf(CopeStr, 2, NiiGz),
     PathOf(ZstatStr, 1, NiiGz), PathOf(ZstatStr, 12, NiiGz), PathOf(ZstatStr, 2, <<>>),
     PathOf(<<"c", "o", "p", "e">>, 1, NiiGz)}

\* contrast_num: None, or a contrast number
ContrastNums == {<<>>, <<1>>, <<2>>, <<10>>}

FLInit ==
    /\ flFiles \in SeqsUpTo(PathUniverse, MaxPaths)
    /\ flContrast \in ContrastNums
    /\ flWritten = <<>>
    /\ flPc = "call"
    /\ GAIdle
    /\ PrepIdle

\* create_file_list(registered_files, output_file, contrast_num)
CallCreateFileList ==
    /\ flPc = "call"
    /\ flWritten' = CreateFileList(flFiles, flContrast)
    /\ flPc' = "returned"
    /\ UNCHANGED <<flFiles, flContrast>>
    /\ UNCHANGED <<gaVars, prepVars>>

FLNext == CallCreateFileList

SpecFL == FLInit /\ [][FLNext]_vars

\* ------------------------------------------------------------------------
\* Properties of the group analysis (checked under SpecGA)
\* ------------------------------------------------------------------------
\* perform_group_analysis has returned
Analysed == tStat # <<>>

ZZero == [k |-> "fin", s |-> 0]

IdenticalAcrossSubjects ==
    \A i \in DOMAIN dataStack : \A v \in DOMAIN dataStack[i] :
        dataStack[i][v] = dataStack[1][v]

ManifestEmpty == manifest.readable /\ NonBlank(manifest.lines) = <<>>

ShapesDiffer ==
    \E i, j \in DOMAIN manifest.lines :
        /\ manifest.lines[i].kind = "vol"
        /\ manifest.lines[j].kind = "vol"
        /\ manifest.lines[i].shape # manifest.lines[j].shape

HasUnloadable == \E i \in DOMAIN manifest.lines : manifest.lines[i].kind = "bad"

\* C1: at every voxel of the result the z-statistic has the sign of the
\* t-statistic (both positive, both negative, or both 0).
C1_SignsMatch ==
    Analysed => \A v \in DOMAIN tStat : zStat[v].s = tStat[v].s

C3_RejectedBeforeAnalysis ==
    /\ (ManifestEmpty \/ ShapesDiffer) =>
            /\ gaPc \in {"main", "exited"}
            /\ ~Analysed
            /\ written = {}
            /\ gaPc = "exited" => (exitStatus # 0 /\ raised # "none")
            /\ (gaPc = "exited" /\ argc = 3) => raised \in {"ValueError", "SystemExit"}
    /\ (gaPc \in {"analyse", "save"} \/ Analysed \/ written # {}) =>
            /\ images # <<>>
            /\ \A i \in DOMAIN images : images[i] = images[1]
            /\ images = [i \in DOMAIN NonBlank(manifest.lines) |->
                            NonBlank(manifest.lines)[i].shape]

\* C3 witness: load_files has rejected loadable volumes of different shapes
C3_Witness ==
    /\ gaPc = "exited"
    /\ argc = 3
    /\ ShapesDiffer
    /\ ~HasUnloadable
    /\ raised = "SystemExit"

\* C4: with a wrong number of arguments, a missing or unreadable manifest, a
\* path that fails to load, or volumes of different shapes, the process
\* never gets past load_files and its exit status is 1.
C4_ExitStatusOne ==
    (argc # 3 \/ ~manifest.readable \/ HasUnloadable \/ ShapesDiffer) =>
        /\ gaPc \in {"main", "exited"}
        /\ gaPc = "exited" => exitStatus = 1

\* C4 witness: a listed path failed to load and the process has exited
C4_Witness ==
    /\ gaPc = "exited"
    /\ argc = 3
    /\ manifest.readable
    /\ HasUnloadable
    /\ exitStatus = 1

\* C9: the degrees of freedom returned are K - 1 for K input volumes.
C9_DegreesOfFreedom ==
    Analysed => (dfOut = Len(images) - 1 /\ Len(images) = Len(dataStack))

\* C9 witness: three volumes were analysed
C9_Witness == Analysed /\ Len(images) = 3 /\ dfOut = 2

\* ------------------------------------------------------------------------
\* Properties of the registration driver (checked under SpecPrep, and under
\* SpecPrepFair where the run is claimed to go on)
\* ------------------------------------------------------------------------
\* the current subject lacks contrast files or a transformation matrix
SkippedSubject == pPc = "subject" /\ (cur.contrasts = <<>> \/ ~cur.mat)

\* register_to_standard has gone through the whole roster and returned
Returned == pPc = "lists" /\ sIdx = Len(SubjectNumbers)

InSeq(x, q) == \E i \in DOMAIN q : q[i] = x

\* C5: a subject without contrast files or without a transformation matrix is
\* skipped with no external command run for it and without ending the run;
\* the subjects are taken one by one in roster order, and after a skip the
\* loop still reaches the last subject and returns.
C5_SkipAndContinue ==
    /\ [][SkippedSubject =>
            /\ pPc' = "loop"
            /\ sIdx' = sIdx
            /\ flirtLog' = flirtLog
            /\ registeredFiles' = registeredFiles
            /\ outputs' = outputs]_vars
    /\ [][sIdx' # sIdx => (sIdx' = sIdx + 1 \/ sIdx' = 0)]_vars
    /\ (SkippedSubject ~> Returned)

\* C5 witness: the first subject of the roster was skipped (it left no trace)
\* and the second one was registered by the external command afterwards
C5_Witness ==
    /\ Returned
    /\ ~second
    /\ flirtLog # <<>>
    /\ flirtLog[1].sub > SubjectNumbers[1]
    /\ flirtLog[1].rc = 0
    /\ registeredFiles # <<>>
    /\ registeredFiles[1] = flirtLog[1].out

\* C6: when the output file of a contrast file already exists, the external
\* command is not run for it and the existing path is appended to the list;
\* the command is only run for a file whose output does not exist, and at
\* most once per contrast file in a run.
C6_ReuseExistingOutput ==
    [][/\ (AtFile /\ CurOutput \in outputs) =>
            /\ flirtLog' = flirtLog
            /\ registeredFiles' = Append(registeredFiles, CurOutput)
       /\ (flirtLog' # flirtLog /\ flirtLog' # <<>>) =>
            /\ AtFile
            /\ CurOutput \notin outputs
            /\ Len(flirtLog') = Len(flirtLog) + 1
            /\ flirtLog'[Len(flirtLog')].out = CurOutput
            /\ SubSeq(flirtLog', 1, Len(flirtLog)) = flirtLog
            /\ \A i \in DOMAIN flirtLog : flirtLog[i].out # CurOutput]_vars

\* C6 witness: a second run has returned a non-empty list without running
\* the external command once
C6_Witness ==
    /\ second
    /\ Returned
    /\ registeredFiles # <<>>
    /\ flirtLog = <<>>

\* C8: a non-zero exit status of the external command leaves the list as it
\* was and moves on to the next contrast file or the next subject; a failed
\* file is in no list written by the run, a file whose command succeeded is
\* in the registered list, and the run still goes through the whole roster.
C8_FailureIsLocal ==
    /\ [][(Len(flirtLog') = Len(flirtLog) + 1 /\ flirtLog'[Len(flirtLog')].rc # 0) =>
            /\ registeredFiles' = registeredFiles
            /\ \/ (fIdx < Len(cur.contrasts) /\ pPc' = "subject" /\ fIdx' = fIdx + 1)
               \/ (fIdx = Len(cur.contrasts) /\ pPc' = "loop")
            /\ sIdx' = sIdx]_vars
    /\ [](\A i \in DOMAIN flirtLog :
            /\ flirtLog[i].rc # 0 =>
                /\ ~InSeq(flirtLog[i].out, registeredFiles)
                /\ \A j \in DOMAIN fileLists : ~InSeq(flirtLog[i].out, fileLists[j].paths)
            /\ flirtLog[i].rc = 0 => InSeq(flirtLog[i].out, registeredFiles))
    /\ ((flirtLog # <<>> /\ flirtLog[Len(flirtLog)].rc # 0 /\ pPc \in {"subject", "loop"})
            ~> Returned)

\* C8 witness: the run has ended after a failed command that was followed by
\* a successful one for the same subject and a successful one for a later
\* subject, both in the list
C8_Witness ==
    /\ pPc = "done"
    /\ fileLists # <<>>
    /\ \E i, j, k \in DOMAIN flirtLog :
        /\ i < j /\ j < k
        /\ flirtLog[i].rc # 0
        /\ flirtLog[j].rc = 0 /\ flirtLog[j].sub = flirtLog[i].sub
        /\ flirtLog[k].rc = 0 /\ flirtLog[k].sub > flirtLog[i].sub
        /\ InSeq(flirtLog[j].out, fileLists[1].paths)
        /\ InSeq(flirtLog[k].out, fileLists[1].paths)

\* ------------------------------------------------------------------------
\* Properties of create_file_list (checked under SpecFL)
\* ------------------------------------------------------------------------
\* the decimal text of the contrast numbers in use
ContrastText(n) ==
    CASE n = 1 -> <<"1">>
      [] n = 2 -> <<"2">>
      [] n = 10 -> <<"1", "0">>
      [] n = 12 -> <<"1", "2">>

\* needle occurs in path at offset i
OccursAt(path, needle, i) ==
    /\ i + Len(needle) - 1 <= Len(path)
    /\ \A k \in 1..Len(needle) : path[i + k - 1] = needle[k]

\* the path contains .cope<n> or .zstat<n>
NameContains(path, n) ==
    \E i \in 1..Len(path) :
        \/ OccursAt(path, CopeStr \o ContrastText(n), i)
        \/ OccursAt(path, ZstatStr \o ContrastText(n), i)

\* the path is named for contrast n: .cope<n> or .zstat<n> followed by a
\* character that is not a digit
NamedForContrast(path, n) ==
    \E i \in 1..Len(path) : \E tag \in {CopeStr, ZstatStr} :
        LET needle == tag \o ContrastText(n) IN
        /\ OccursAt(path, needle, i)
        /\ i + Len(needle) <= Len(path)
        /\ path[i + Len(needle)] \notin DigitChars

\* C7: the list written for contrast N holds exactly the paths whose name
\* contains .cope<N> or .zstat<N>, in the order of the input list; with no
\* contrast number it holds every path of the input list.
C7_ExactlyTheMatchingPaths ==
    flPc = "returned" =>
        IF flContrast = <<>> THEN flWritten = flFiles
        ELSE LET want == {i \in DOMAIN flFiles : NameContains(flFiles[i], flContrast[1])}
             IN \E f \in [DOMAIN flWritten -> DOMAIN flFiles] :
                    /\ \A a, b \in DOMAIN flWritten : a < b => f[a] < f[b]
                    /\ {f[a] : a \in DOMAIN flWritten} = want
                    /\ \A a \in DOMAIN flWritten : flWritten[a] = flFiles[f[a]]

\* C7 witness: a list for contrast 1 was written that keeps a .cope1 and a
\* .zstat1 path and drops another path
C7_Witness ==
    /\ flPc = "returned"
    /\ flContrast = <<1>>
    /\ Len(flWritten) < Len(flFiles)
    /\ InSeq(PathOf(CopeStr, 1, NiiGz), flWritten)
    /\ InSeq(PathOf(ZstatStr, 1, NiiGz), flWritten)

\* C10: the list written for contrast N holds no path named for another
\* contrast M (its name has .cope<M> or .zstat<M> followed by a non-digit).
C10_OnlyTheRequestedContrast ==
    (flPc = "returned" /\ flContrast # <<>>) =>
        \A a \in DOMAIN flWritten : \A m \in {1, 2, 10, 12} \ {flContrast[1]} :
            ~NamedForContrast(flWritten[a], m)

====
